---------------------------- MODULE Spec2Model ----------------------------
(***************************************************************************)
(* Model of media/libstagefright/foundation/OpusHeader.cpp: the Opus       *)
(* identification-header parser and writer, the unified-CSD writer and the *)
(* unified-CSD splitter.                                                   *)
(*                                                                         *)
(* A byte buffer is a sequence of naturals in 0..255; the byte at C offset *)
(* i is buf[i + 1].  A pointer into a buffer is the offset it points at,   *)
(* the NULL pointer is -1.  Every function is an operator that returns a   *)
(* record of its result, the buffer it leaves behind and the set of byte   *)
(* indices it read or wrote.  The four functions are driven by a harness   *)
(* that picks the inputs in Init and calls them one after the other.       *)
(*                                                                         *)
(* Integers: TLC's integers are 32 bits wide, so a uint64_t sample count   *)
(* is drawn from 0..2^31-1 and laid out as 8 little-endian bytes; every    *)
(* size_t subtraction of the source is guarded, in the source, by a check  *)
(* that keeps it from wrapping (lines 182 and 242), so it is modelled by   *)
(* the integer subtraction.                                                *)
(***************************************************************************)
EXTENDS Integers, Sequences, FiniteSets, TLC

VARIABLES calls, header, input_sample_rate, codecDelay, seekPreRoll,
          output, before, data_size, ret, writes, parsed, bufs

vars == <<calls, header, input_sample_rate, codecDelay, seekPreRoll,
          output, before, data_size, ret, writes, parsed, bufs>>

(***************************************************************************)
(* Constants of OpusHeader.cpp                                             *)
(***************************************************************************)
kMaxChannels == 8

kOpusChannelMap ==
    << <<0>>,
       <<0, 1>>,
       <<0, 2, 1>>,
       <<0, 1, 2, 3>>,
       <<0, 4, 1, 2, 3>>,
       <<0, 4, 1, 2, 3, 5>>,
       <<0, 4, 1, 2, 3, 5, 6>>,
       <<0, 6, 1, 2, 3, 4, 5, 7>> >>

kOpusHeaderSize == 19
kOpusHeaderLabelOffset == 0
kOpusHeaderVersionOffset == 8
kOpusHeaderChannelsOffset == 9
kOpusHeaderSkipSamplesOffset == 10
kOpusHeaderSampleRateOffset == 12
kOpusHeaderGainOffset == 16
kOpusHeaderChannelMappingOffset == 18
kOpusHeaderNumStreamsOffset == 19
kOpusHeaderNumCoupledStreamsOffset == 20
kOpusHeaderStreamMapOffset == 21
kMaxChannelsWithDefaultLayout == 2

\* "OpusHead"
OpusHeadLabel == <<79, 112, 117, 115, 72, 101, 97, 100>>

(***************************************************************************)
(* Constants of OpusHeader.h (the unified-CSD trailer records)             *)
(***************************************************************************)
\* "AOPUSDLY"
AOPUS_CSD_CODEC_DELAY_MARKER == <<65, 79, 80, 85, 83, 68, 76, 89>>
\* "AOPUSPRL"
AOPUS_CSD_SEEK_PREROLL_MARKER == <<65, 79, 80, 85, 83, 80, 82, 76>>
AOPUS_CSD_SIZE == 8
AOPUS_LENGTH == 8
AOPUS_MARKER_SIZE == 8
AOPUS_LENGTH_SIZE == 8
AOPUS_TOTAL_CSD_SIZE == AOPUS_MARKER_SIZE + AOPUS_LENGTH_SIZE + AOPUS_CSD_SIZE
AOPUS_CSD0_MINSIZE == 19
AOPUS_UNIFIED_CSD_MINSIZE == AOPUS_CSD0_MINSIZE + 2 * AOPUS_TOTAL_CSD_SIZE

NULL == -1

(***************************************************************************)
(* Bytes and buffers                                                       *)
(***************************************************************************)
\* data[i]; a read outside the buffer yields the arbitrary byte oob
At(data, i, oob) == IF i >= 0 /\ i < Len(data) THEN data[i + 1] ELSE oob

\* memcpy(buf + off, bytes, Len(bytes)); a store outside the buffer is dropped
Memcpy(buf, off, bytes) ==
    [i \in 1..Len(buf) |->
        IF i - 1 >= off /\ i - 1 < off + Len(bytes) THEN bytes[i - off] ELSE buf[i]]

\* memset(buf, 0, n)
Memset0(buf, n) == [i \in 1..Len(buf) |-> IF i <= n THEN 0 ELSE buf[i]]

\* the byte indices off .. off + n - 1
Range(off, n) == off..(off + n - 1)

\* the bytes data[off .. off + n - 1]
Bytes(data, off, n, oob) == [k \in 1..n |-> At(data, off + k - 1, oob)]

\* static_cast<int16_t>(u) of a uint16_t
ToInt16(u) == IF u >= 32768 THEN u - 65536 ELSE u

\* the object representation of an int16_t or uint16_t (little-endian target)
LE16(v) == LET u == (v + 65536) % 65536 IN <<u % 256, u \div 256>>

\* the object representation of a 32-bit int (little-endian target)
LE32(v) ==
    LET u == IF v >= 0 THEN v ELSE (v + 2147483647) + 1
        top == IF v >= 0 THEN u \div 16777216 ELSE (u \div 16777216) + 128
    IN <<u % 256, (u \div 256) % 256, (u \div 65536) % 256, top>>

\* the object representation of a uint64_t below 2^31
LE64(v) == LE32(v) \o <<0, 0, 0, 0>>

(***************************************************************************)
(* ReadLE16                                                                *)
(***************************************************************************)
ReadLE16InRange(size, read_offset) == ~(read_offset + 1 >= size)

\* ReadLE16 taking the first byte as the high one
ReadLE16_BigEndian(data, size, read_offset, oob) ==
    IF ~ReadLE16InRange(size, read_offset) THEN 0
    ELSE At(data, read_offset, oob) * 256 + At(data, read_offset + 1, oob)

ReadLE16(data, size, read_offset, oob) ==
    IF ~ReadLE16InRange(size, read_offset) THEN 0
    ELSE At(data, read_offset, oob) + At(data, read_offset + 1, oob) * 256

ReadLE16Reads(size, read_offset) ==
    IF ~ReadLE16InRange(size, read_offset) THEN {}
    ELSE {read_offset, read_offset + 1}

(***************************************************************************)
(* ParseOpusHeader: the result, the header object as the call leaves it    *)
(* (fields are assigned before the checks that follow them) and the set of *)
(* indices of data it read.                                                *)
(***************************************************************************)
HeaderTooSmall(size) == size < kOpusHeaderSize

\* the channel check with the upper limit excluded
BadChannelCount_Exclusive(channels) == channels < 1 \/ channels >= kMaxChannels

BadChannelCount(channels) == channels < 1 \/ channels > kMaxChannels

MissingStreamMap(channels) == channels > kMaxChannelsWithDefaultLayout

\* the tail check without the stream map's channels entries
StreamMapTruncated_NoEntries(size, channels) == size < kOpusHeaderStreamMapOffset

StreamMapTruncated(size, channels) == size < kOpusHeaderStreamMapOffset + channels

InconsistentMapping(h) == h.num_streams + h.num_coupled # h.channels

ParseOpusHeader(data, size, hdr, oob) ==
    IF HeaderTooSmall(size)
    THEN [ok |-> FALSE, header |-> hdr, reads |-> {}]
    ELSE
    LET channels == At(data, kOpusHeaderChannelsOffset, oob)
        h1 == [hdr EXCEPT !.channels = channels]
        r1 == {kOpusHeaderChannelsOffset}
    IN
    IF BadChannelCount(channels)
    THEN [ok |-> FALSE, header |-> h1, reads |-> r1]
    ELSE
    LET h2 == [h1 EXCEPT
                 !.skip_samples =
                     ReadLE16(data, size, kOpusHeaderSkipSamplesOffset, oob),
                 !.gain_db =
                     ToInt16(ReadLE16(data, size, kOpusHeaderGainOffset, oob)),
                 !.channel_mapping =
                     At(data, kOpusHeaderChannelMappingOffset, oob)]
        r2 == r1 \cup ReadLE16Reads(size, kOpusHeaderSkipSamplesOffset)
                 \cup ReadLE16Reads(size, kOpusHeaderGainOffset)
                 \cup {kOpusHeaderChannelMappingOffset}
    IN
    IF h2.channel_mapping = 0
    THEN IF MissingStreamMap(channels)
         THEN [ok |-> FALSE, header |-> h2, reads |-> r2]
         ELSE [ok |-> TRUE,
               header |-> [h2 EXCEPT !.num_streams = 1,
                                     !.num_coupled = IF channels > 1 THEN 1 ELSE 0,
                                     !.stream_map[1] = 0,
                                     !.stream_map[2] = 1],
               reads |-> r2]
    ELSE
    IF StreamMapTruncated(size, channels)
    THEN [ok |-> FALSE, header |-> h2, reads |-> r2]
    ELSE
    LET h3 == [h2 EXCEPT
                 !.num_streams = At(data, kOpusHeaderNumStreamsOffset, oob),
                 !.num_coupled = At(data, kOpusHeaderNumCoupledStreamsOffset, oob)]
        r3 == r2 \cup {kOpusHeaderNumStreamsOffset, kOpusHeaderNumCoupledStreamsOffset}
    IN
    IF InconsistentMapping(h3)
    THEN [ok |-> FALSE, header |-> h3, reads |-> r3]
    ELSE [ok |-> TRUE,
          header |-> [h3 EXCEPT !.stream_map =
                        [i \in 1..kMaxChannels |->
                            IF i <= channels
                            THEN At(data, kOpusHeaderStreamMapOffset + i - 1, oob)
                            ELSE h3.stream_map[i]]],
          reads |-> r3 \cup Range(kOpusHeaderStreamMapOffset, channels)]

(***************************************************************************)
(* WriteOpusHeader: the return value, the buffer as the call leaves it and *)
(* the set of indices of output it stored to.                              *)
(***************************************************************************)
\* the required size without the stream map's channels entries
TotalSize_NoEntries(h) == kOpusHeaderStreamMapOffset

TotalSize(h) == kOpusHeaderStreamMapOffset + h.channels

HasStreamMap(h) == h.channels > 2

\* the table indexed by a channel count that is one too small
WrittenStreamMap_RowBelow(h) == kOpusChannelMap[h.channels - 1]

\* the stream map row the writer copies, kOpusChannelMap[channels - 1]
WrittenStreamMap(h) == kOpusChannelMap[h.channels]

WriteOpusHeader(h, rate, out, output_size) ==
    IF output_size < TotalSize(h)
    THEN [ret |-> -1, output |-> out, writes |-> {}]
    ELSE
    LET o0 == Memset0(out, output_size)
        o1 == Memcpy(o0, kOpusHeaderLabelOffset, OpusHeadLabel)
        o2 == Memcpy(o1, kOpusHeaderVersionOffset, <<1>>)
        o3 == Memcpy(o2, kOpusHeaderChannelsOffset, <<h.channels % 256>>)
        o4 == Memcpy(o3, kOpusHeaderSkipSamplesOffset, LE16(h.skip_samples))
        o5 == Memcpy(o4, kOpusHeaderSampleRateOffset, LE32(rate))
        o6 == Memcpy(o5, kOpusHeaderGainOffset, LE16(h.gain_db))
        w6 == Range(0, output_size) \cup Range(kOpusHeaderLabelOffset, 8)
                \cup {kOpusHeaderVersionOffset, kOpusHeaderChannelsOffset}
                \cup Range(kOpusHeaderSkipSamplesOffset, 2)
                \cup Range(kOpusHeaderSampleRateOffset, 4)
                \cup Range(kOpusHeaderGainOffset, 2)
    IN
    IF HasStreamMap(h)
    THEN LET o7 == Memcpy(o6, kOpusHeaderChannelMappingOffset, <<1>>)
             o8 == Memcpy(o7, kOpusHeaderNumStreamsOffset, <<h.channels % 256>>)
             o9 == Memcpy(o8, kOpusHeaderNumCoupledStreamsOffset, <<0>>)
             o10 == Memcpy(o9, kOpusHeaderStreamMapOffset, WrittenStreamMap(h))
         IN [ret |-> kOpusHeaderStreamMapOffset + h.channels + 1,
             output |-> o10,
             writes |-> w6 \cup {kOpusHeaderChannelMappingOffset,
                                 kOpusHeaderNumStreamsOffset,
                                 kOpusHeaderNumCoupledStreamsOffset}
                           \cup Range(kOpusHeaderStreamMapOffset, h.channels)]
    ELSE [ret |-> kOpusHeaderChannelMappingOffset + 1,
          output |-> Memcpy(o6, kOpusHeaderChannelMappingOffset, <<0>>),
          writes |-> w6 \cup {kOpusHeaderChannelMappingOffset}]

(***************************************************************************)
(* WriteOpusHeaders                                                        *)
(***************************************************************************)
UnifiedTooSmall(outputSize) == outputSize < AOPUS_UNIFIED_CSD_MINSIZE

NoRoomForTrailers(headerLen, outputSize) ==
    headerLen >= outputSize - 2 * AOPUS_TOTAL_CSD_SIZE

\* Marker (8 bytes) | Length (8 bytes) | Samples (8 bytes)
CsdRecord(marker, samples) == marker \o LE64(AOPUS_LENGTH) \o LE64(samples)

WriteOpusHeaders(h, rate, out, outputSize, delay, preroll) ==
    IF UnifiedTooSmall(outputSize)
    THEN [ret |-> -1, output |-> out, writes |-> {}]
    ELSE
    LET w == WriteOpusHeader(h, rate, out, outputSize)
        headerLen == w.ret
    IN
    IF headerLen < 0
    THEN [ret |-> -1, output |-> w.output, writes |-> w.writes]
    ELSE
    IF NoRoomForTrailers(headerLen, outputSize)
    THEN [ret |-> -1, output |-> w.output, writes |-> w.writes]
    ELSE
    LET o1 == Memcpy(w.output, headerLen,
                     CsdRecord(AOPUS_CSD_CODEC_DELAY_MARKER, delay))
        o2 == Memcpy(o1, headerLen + AOPUS_TOTAL_CSD_SIZE,
                     CsdRecord(AOPUS_CSD_SEEK_PREROLL_MARKER, preroll))
    IN [ret |-> headerLen + 2 * AOPUS_TOTAL_CSD_SIZE,
        output |-> o2,
        writes |-> w.writes \cup Range(headerLen, 2 * AOPUS_TOTAL_CSD_SIZE)]

(***************************************************************************)
(* GetOpusHeaderBuffers: the three views (a pointer is an offset into      *)
(* data), the sequence scan of values the index i took in the loop body,   *)
(* its current value last, whether the loop has exited, and the set of     *)
(* indices of data the marker comparisons read.                            *)
(***************************************************************************)
Min(a, b) == IF a < b THEN a ELSE b

\* the scan enabled as soon as one trailer record fits
ScanEnabled_OneRecord(size) == size >= AOPUS_TOTAL_CSD_SIZE

ScanEnabled(size) == size >= AOPUS_UNIFIED_CSD_MINSIZE

\* the scan bound leaving room for the marker only
ScanLimit_MarkerOnly(size) == size - AOPUS_MARKER_SIZE

ScanLimit(size) == size - AOPUS_TOTAL_CSD_SIZE

\* csdBuf + AOPUS_MARKER_SIZE + AOPUS_LENGTH_SIZE
PayloadOf(i) == i + AOPUS_MARKER_SIZE + AOPUS_LENGTH_SIZE

\* one evaluation of the loop condition at line 244 and, when it holds, of
\* the loop body
ScanStep(data, size, acc, oob) ==
    LET i == acc.last IN
    IF ~(i < ScanLimit(size))
    THEN [acc EXCEPT !.exited = TRUE]
    ELSE
    LET csdBuf == Bytes(data, i, AOPUS_MARKER_SIZE, oob)
        a1 == [acc EXCEPT !.scan = Append(@, i),
                          !.reads = @ \cup Range(i, AOPUS_MARKER_SIZE)]
    IN
    IF csdBuf = AOPUS_CSD_CODEC_DELAY_MARKER
    THEN [a1 EXCEPT !.opusHeadSize = Min(@, i),
                    !.codecDelayBuf = PayloadOf(i),
                    !.codecDelaySize = AOPUS_CSD_SIZE,
                    !.last = i + AOPUS_TOTAL_CSD_SIZE]
    ELSE
    IF csdBuf = AOPUS_CSD_SEEK_PREROLL_MARKER
    THEN [a1 EXCEPT !.opusHeadSize = Min(@, i),
                    !.seekPreRollBuf = PayloadOf(i),
                    !.seekPreRollSize = AOPUS_CSD_SIZE,
                    !.last = i + AOPUS_TOTAL_CSD_SIZE]
    ELSE [a1 EXCEPT !.last = i + 1]

\* n steps of the loop, run in two halves to keep the evaluation shallow;
\* the state between the halves is bound as a value
RECURSIVE ScanRun(_, _, _, _, _)
ScanRun(data, size, acc, n, oob) ==
    IF n = 0 THEN acc
    ELSE IF n = 1 THEN ScanStep(data, size, acc, oob)
    ELSE CHOOSE r \in { ScanRun(data, size, mid, n - (n \div 2), oob) :
                          mid \in {ScanRun(data, size, acc, n \div 2, oob)} } : TRUE

\* the loop is run for size + 1 steps: exited tells whether it left the loop
\* within them
GetOpusHeaderBuffers(data, size, oob) ==
    LET acc0 == [opusHeadBuf |-> 0, opusHeadSize |-> size,
                 codecDelayBuf |-> NULL, codecDelaySize |-> 0,
                 seekPreRollBuf |-> NULL, seekPreRollSize |-> 0,
                 scan |-> <<>>, last |-> 0, exited |-> FALSE, reads |-> {}]
    IN IF ScanEnabled(size)
       THEN ScanRun(data, size, acc0, size + 1, oob)
       ELSE acc0

(***************************************************************************)
(* Bounds of the model                                                     *)
(***************************************************************************)
\* WriteOpusHeader is called with every capacity in 0..MaxHeaderCap
MaxHeaderCap == 31
\* WriteOpusHeaders is called with every capacity in MinUnifiedCap..MaxUnifiedCap
MinUnifiedCap == 66
MaxUnifiedCap == 80
\* ParseOpusHeader is called on raw buffers of every length in 0..MaxRawSize
MaxRawSize == 31
\* GetOpusHeaderBuffers is called on raw buffers of every length in
\* MinCsdSize..MaxCsdSize
MinCsdSize == 65
MaxCsdSize == 69

(***************************************************************************)
(* Inputs                                                                  *)
(***************************************************************************)
\* a byte that is neither 0 nor part of a marker
FillerByte(i) == 128 + (i % 100)

Filler(n) == [i \in 1..n |-> FillerByte(i)]

PadMap(m) == [i \in 1..kMaxChannels |-> IF i <= Len(m) THEN m[i] ELSE 0]

ReverseMap(c) == [i \in 1..c |-> c - i]

\* the header object a caller hands to ParseOpusHeader; the parser never
\* reads it
BlankHeader ==
    [channels |-> 0, skip_samples |-> 0, gain_db |-> 0, channel_mapping |-> 0,
     num_streams |-> 0, num_coupled |-> 0,
     stream_map |-> [i \in 1..kMaxChannels |-> 255]]

\* skip_samples, input_sample_rate, gain_db; the second triple lays the bytes
\* "AOPUSDLY" at offsets 10..17 of the written header
SampleFields ==
    { <<0, 48000, -1>>, <<20289, 1146312016, 22860>>, <<65535, -1, -32768>> }

MappingFamilies == {0, 1, 255}

\* the headers of the data model: channels in 1..8, channel_mapping 0 only
\* with at most 2 channels, num_streams + num_coupled = channels and a stream
\* map of channels entries when channel_mapping is not 0
ValidHeader(h) ==
    /\ h.channels \in 1..kMaxChannels
    /\ h.skip_samples \in 0..65535
    /\ h.gain_db \in (-32768)..32767
    /\ h.channel_mapping \in 0..255
    /\ h.channel_mapping = 0 => h.channels <= kMaxChannelsWithDefaultLayout
    /\ h.channel_mapping # 0 => h.num_streams + h.num_coupled = h.channels
    /\ h.num_streams \in 0..255 /\ h.num_coupled \in 0..255
    /\ \A i \in 1..kMaxChannels : h.stream_map[i] \in 0..255

HeaderShapes ==
    { [channels |-> c, skip_samples |-> 0, gain_db |-> 0, channel_mapping |-> m,
       num_streams |-> IF m = 0 THEN 1 ELSE c - nc, num_coupled |-> nc,
       stream_map |-> IF rev THEN PadMap(ReverseMap(c))
                             ELSE PadMap(kOpusChannelMap[c])] :
         c \in 1..kMaxChannels, m \in MappingFamilies, nc \in {0, 1},
         rev \in BOOLEAN }

Headers == { h \in HeaderShapes : ValidHeader(h) }

\* the header the harness passes where the call under test takes none
DefaultHeader ==
    [channels |-> 1, skip_samples |-> 0, gain_db |-> 0, channel_mapping |-> 0,
     num_streams |-> 1, num_coupled |-> 0, stream_map |-> PadMap(<<0>>)]

\* codecDelay, seekPreRoll
SampleCounts == { <<0, 0>>, <<312, 3840>>, <<2147483647, 1>> }

\* a raw identification header of n bytes: the bytes the parser branches on
\* are chosen, the others are filler
RawHeader(n, ch, m, ns, nc) ==
    [i \in 1..n |->
        CASE i - 1 = kOpusHeaderChannelsOffset -> ch
          [] i - 1 = kOpusHeaderChannelMappingOffset -> m
          [] i - 1 = kOpusHeaderNumStreamsOffset -> ns
          [] i - 1 = kOpusHeaderNumCoupledStreamsOffset -> nc
          [] OTHER -> FillerByte(i)]

RawHeaders ==
    { RawHeader(n, ch, m, ch - nc + d, nc) :
        n \in 0..MaxRawSize, ch \in {0, 1, 2, 3, 8, 9, 255},
        m \in MappingFamilies, nc \in {0, 1}, d \in {0, 1} }

\* "AOPUSHDR", a marker the splitter does not know
UnknownMarker == <<65, 79, 80, 85, 83, 72, 68, 82>>

Markers == {AOPUS_CSD_CODEC_DELAY_MARKER, AOPUS_CSD_SEEK_PREROLL_MARKER,
            UnknownMarker}

MarkerOffsets == {0, 19, 27, 42, 43, 44, 51}

\* a raw buffer of n bytes with two markers laid over filler
RawCsds ==
    { Memcpy(Memcpy(Filler(n), p1, k1), p2, k2) :
        n \in MinCsdSize..MaxCsdSize, p1 \in MarkerOffsets, p2 \in MarkerOffsets,
        k1 \in Markers, k2 \in Markers }

NoParse == [ok |-> FALSE, header |-> BlankHeader, reads |-> {}]

NoBufs == [opusHeadBuf |-> NULL, opusHeadSize |-> 0,
           codecDelayBuf |-> NULL, codecDelaySize |-> 0,
           seekPreRollBuf |-> NULL, seekPreRollSize |-> 0,
           scan |-> <<>>, last |-> 0, exited |-> FALSE, reads |-> {}]

(***************************************************************************)
(* The harness                                                             *)
(***************************************************************************)
InitCommon ==
    /\ calls = <<>>
    /\ before = output
    /\ data_size = Len(output)
    /\ ret = 0
    /\ writes = {}
    /\ parsed = NoParse
    /\ bufs = NoBufs

\* a header to write into a buffer of filler
InitHeader ==
    /\ \E h \in Headers, f \in SampleFields :
          /\ header = [h EXCEPT !.skip_samples = f[1], !.gain_db = f[3]]
          /\ input_sample_rate = f[2]
    /\ \E cap \in 0..MaxHeaderCap : output = Filler(cap)
    /\ codecDelay = 0
    /\ seekPreRoll = 0

\* a header to write, with two sample counts, into a buffer of filler
InitUnified ==
    /\ \E h \in Headers, f \in SampleFields :
          /\ header = [h EXCEPT !.skip_samples = f[1], !.gain_db = f[3]]
          /\ input_sample_rate = f[2]
    /\ \E cap \in MinUnifiedCap..MaxUnifiedCap : output = Filler(cap)
    /\ \E c \in SampleCounts : codecDelay = c[1] /\ seekPreRoll = c[2]

\* a raw buffer to parse
InitRawHeader ==
    /\ header = DefaultHeader
    /\ input_sample_rate = 48000
    /\ output \in RawHeaders
    /\ codecDelay = 0
    /\ seekPreRoll = 0

\* a raw buffer to split
InitRawCsd ==
    /\ header = DefaultHeader
    /\ input_sample_rate = 48000
    /\ output \in RawCsds
    /\ codecDelay = 0
    /\ seekPreRoll = 0

Init == (InitHeader \/ InitUnified \/ InitRawHeader \/ InitRawCsd) /\ InitCommon

\* the bytes a read outside the buffer may yield
OobBytes == {0, 255}

\* the call sequences the harness makes: a writer's output is handed to the
\* parser or to the splitter only when the writer succeeded, with the length
\* the writer returned
Written == calls # <<>> /\ calls[Len(calls)] \in {"WriteOpusHeader", "WriteOpusHeaders"}

CanRead == calls = <<>> \/ (Written /\ ret >= 0)

LengthToPass == IF calls = <<>> THEN Len(output) ELSE ret

CallWriteOpusHeader ==
    /\ calls = <<>>
    /\ LET w == WriteOpusHeader(header, input_sample_rate, output, Len(output))
       IN /\ ret' = w.ret
          /\ output' = w.output
          /\ writes' = w.writes
    /\ before' = output
    /\ calls' = Append(calls, "WriteOpusHeader")
    /\ UNCHANGED <<header, input_sample_rate, codecDelay, seekPreRoll,
                   data_size, parsed, bufs>>

CallWriteOpusHeaders ==
    /\ calls = <<>>
    /\ LET w == WriteOpusHeaders(header, input_sample_rate, output, Len(output),
                                 codecDelay, seekPreRoll)
       IN /\ ret' = w.ret
          /\ output' = w.output
          /\ writes' = w.writes
    /\ before' = output
    /\ calls' = Append(calls, "WriteOpusHeaders")
    /\ UNCHANGED <<header, input_sample_rate, codecDelay, seekPreRoll,
                   data_size, parsed, bufs>>

CallParseOpusHeader ==
    /\ CanRead
    /\ data_size' = LengthToPass
    /\ \E oob \in OobBytes, n \in {LengthToPass} :
          parsed' = ParseOpusHeader(output, n, BlankHeader, oob)
    /\ calls' = Append(calls, "ParseOpusHeader")
    /\ UNCHANGED <<header, input_sample_rate, codecDelay, seekPreRoll,
                   output, before, ret, writes, bufs>>

CallGetOpusHeaderBuffers ==
    /\ CanRead
    /\ data_size' = LengthToPass
    /\ \E oob \in OobBytes, n \in {LengthToPass} :
          bufs' = GetOpusHeaderBuffers(output, n, oob)
    /\ calls' = Append(calls, "GetOpusHeaderBuffers")
    /\ UNCHANGED <<header, input_sample_rate, codecDelay, seekPreRoll,
                   output, before, ret, writes, parsed>>

Next ==
    \/ CallWriteOpusHeader
    \/ CallWriteOpusHeaders
    \/ CallParseOpusHeader
    \/ CallGetOpusHeaderBuffers

Spec == Init /\ [][Next]_vars

(***************************************************************************)
(* Properties                                                              *)
(***************************************************************************)
LastCall(name) == calls # <<>> /\ calls[Len(calls)] = name

\* the stream map of a header: its first channels entries
StreamMapOf(h) == SubSeq(h.stream_map, 1, h.channels)

\* the bytes output[off .. off + n - 1] of the buffer under test
OutputBytes(off, n) == Bytes(output, off, n, 0)

\* the layout the writer emits for c channels, as the fixed table states it
CanonicalRow(c) ==
    CASE c = 1 -> <<0>>
      [] c = 2 -> <<0, 1>>
      [] c = 3 -> <<0, 2, 1>>
      [] c = 4 -> <<0, 1, 2, 3>>
      [] c = 5 -> <<0, 4, 1, 2, 3>>
      [] c = 6 -> <<0, 4, 1, 2, 3, 5>>
      [] c = 7 -> <<0, 4, 1, 2, 3, 5, 6>>
      [] c = 8 -> <<0, 6, 1, 2, 3, 4, 5, 7>>

\* C1 as stated: parsing the bytes a successful WriteOpusHeader wrote, with
\* the length it returned, succeeds and reproduces channels, skip_samples,
\* gain_db, channel_mapping, num_streams, num_coupled and stream_map of the
\* header that was written.
C1_RoundTripAllFields ==
    calls = <<"WriteOpusHeader", "ParseOpusHeader">> =>
        /\ parsed.ok
        /\ parsed.header.channels = header.channels
        /\ parsed.header.skip_samples = header.skip_samples
        /\ parsed.header.gain_db = header.gain_db
        /\ parsed.header.channel_mapping = header.channel_mapping
        /\ parsed.header.num_streams = header.num_streams
        /\ parsed.header.num_coupled = header.num_coupled
        /\ StreamMapOf(parsed.header) = StreamMapOf(header)

\* C1 amended: parsing the bytes a successful WriteOpusHeader wrote, with the
\* length it returned, succeeds and reproduces channels, skip_samples and
\* gain_db of the header that was written; channel_mapping, num_streams,
\* num_coupled and stream_map come back as the writer's canonical layout for
\* that channel count (family 0, 1 stream, channels - 1 coupled for at most
\* 2 channels; family 1, channels streams, 0 coupled for more; the table row
\* as stream map), whatever the written header held in those fields.
C1_RoundTripCanonical ==
    calls = <<"WriteOpusHeader", "ParseOpusHeader">> =>
        /\ parsed.ok
        /\ parsed.header.channels = header.channels
        /\ parsed.header.skip_samples = header.skip_samples
        /\ parsed.header.gain_db = header.gain_db
        /\ parsed.header.channel_mapping = (IF header.channels > 2 THEN 1 ELSE 0)
        /\ parsed.header.num_streams =
              (IF header.channels > 2 THEN header.channels ELSE 1)
        /\ parsed.header.num_coupled =
              (IF header.channels > 2 THEN 0 ELSE header.channels - 1)
        /\ StreamMapOf(parsed.header) = CanonicalRow(header.channels)

C1_Witness ==
    /\ calls = <<"WriteOpusHeader", "ParseOpusHeader">>
    /\ parsed.ok
    /\ header.channels = 6
    /\ header.num_coupled = 1
    /\ header.skip_samples = 20289
    /\ header.gain_db = -32768 \/ header.gain_db = 22860

\* C2: after a successful WriteOpusHeaders returning n, GetOpusHeaderBuffers
\* with data_size = n returns the head view at offset 0 with the length and
\* bytes WriteOpusHeader produces, a present 8-byte codec-delay view holding
\* codecDelay in little-endian, and a present 8-byte seek-preroll view
\* holding seekPreRoll in little-endian.
C2_UnifiedRoundTrip ==
    calls = <<"WriteOpusHeaders", "GetOpusHeaderBuffers">> =>
        LET w == WriteOpusHeader(header, input_sample_rate, before, Len(before))
        IN /\ bufs.opusHeadBuf = 0
           /\ bufs.opusHeadSize = w.ret
           /\ OutputBytes(0, bufs.opusHeadSize) = SubSeq(w.output, 1, w.ret)
           /\ bufs.codecDelayBuf # NULL
           /\ bufs.codecDelaySize = 8
           /\ OutputBytes(bufs.codecDelayBuf, 8) = LE64(codecDelay)
           /\ bufs.seekPreRollBuf # NULL
           /\ bufs.seekPreRollSize = 8
           /\ OutputBytes(bufs.seekPreRollBuf, 8) = LE64(seekPreRoll)

\* the acceptance condition of C3 on the buffer and length under test
C3_Accepts ==
    /\ data_size >= 19
    /\ output[10] \in 1..8
    /\ \/ output[19] = 0 /\ output[10] <= 2
       \/ /\ output[19] # 0
          /\ data_size >= 21 + output[10]
          /\ output[20] + output[21] = output[10]

\* C3: ParseOpusHeader succeeds if and only if length >= 19, the channel
\* byte at offset 9 is in 1..8, and either the mapping byte at offset 18 is 0
\* with at most 2 channels, or it is nonzero with length >= 21 + channels and
\* byte 19 + byte 20 = channels.
C3_ParseAcceptance ==
    LastCall("ParseOpusHeader") => (parsed.ok <=> C3_Accepts)

C3_Witness ==
    /\ calls = <<"ParseOpusHeader">>
    /\ parsed.ok
    /\ parsed.header.channels = 8
    /\ parsed.header.channel_mapping = 255
    /\ parsed.header.num_coupled = 1

\* C4: every index ParseOpusHeader reads is one of 9, 10..11, 16..17, 18, 19,
\* 20, 21..21+channels-1 and is below the length it was given, whether it
\* succeeds or fails; with a length below 19 it fails and reads nothing.
C4_ParseReadsInBounds ==
    LastCall("ParseOpusHeader") =>
        /\ \A i \in parsed.reads : i >= 0 /\ i < data_size
        /\ parsed.reads \subseteq
              ({9, 10, 11, 16, 17, 18, 19, 20}
                  \cup 21..(21 + parsed.header.channels - 1))
        /\ data_size < 19 => ~parsed.ok /\ parsed.reads = {}

C4_Witness ==
    /\ calls = <<"ParseOpusHeader">>
    /\ data_size = 21 + 8 - 1
    /\ output[10] = 8
    /\ output[19] # 0
    /\ ~parsed.ok
    /\ 18 \in parsed.reads

\* C5: WriteOpusHeader with a capacity below 21 + channels returns -1 and
\* leaves every byte of the buffer unchanged; otherwise it succeeds and every
\* index it stores to is below the capacity.
C5_WriteBounds ==
    calls = <<"WriteOpusHeader">> =>
        IF Len(before) < 21 + header.channels
        THEN ret = -1 /\ output = before /\ writes = {}
        ELSE /\ ret >= 0
             /\ \A i \in writes : i >= 0 /\ i < Len(before)
             /\ Len(output) = Len(before)

C5_Witness ==
    /\ calls = <<"WriteOpusHeader">>
    /\ header.channels = 8
    /\ Len(before) = 29
    /\ ret >= 0
    /\ 28 \in writes

\* C6: a successful WriteOpusHeader for 3..8 channels writes mapping family 1
\* at offset 18, num_streams = channels at 19, num_coupled = 0 at 20 and the
\* row of the fixed table at 21.., which is a permutation of 0..channels-1,
\* whatever mapping fields the input header holds; for 1..2 channels it
\* writes mapping family 0 and returns 19.
C6_CanonicalLayout ==
    (calls = <<"WriteOpusHeader">> /\ ret >= 0) =>
        IF header.channels >= 3
        THEN /\ output[19] = 1
             /\ output[20] = header.channels
             /\ output[21] = 0
             /\ OutputBytes(21, header.channels) = CanonicalRow(header.channels)
             /\ {output[21 + i] : i \in 1..header.channels}
                   = 0..(header.channels - 1)
        ELSE output[19] = 0 /\ ret = 19

C6_Witness ==
    /\ calls = <<"WriteOpusHeader">>
    /\ ret >= 0
    /\ header.channels = 6
    /\ header.channel_mapping = 255
    /\ header.num_coupled = 1
    /\ StreamMapOf(header) # CanonicalRow(6)

\* C7: GetOpusHeaderBuffers on a buffer shorter than
\* AOPUS_UNIFIED_CSD_MINSIZE = 67, the output of a successful WriteOpusHeader
\* with the length it returned among them, returns the whole buffer as head
\* view and both trailer views absent, whatever the buffer holds.
C7_BareHeaderSplit ==
    (LastCall("GetOpusHeaderBuffers") /\ data_size < 67) =>
        /\ bufs.opusHeadBuf = 0
        /\ bufs.opusHeadSize = data_size
        /\ bufs.codecDelayBuf = NULL /\ bufs.codecDelaySize = 0
        /\ bufs.seekPreRollBuf = NULL /\ bufs.seekPreRollSize = 0

C7_Witness ==
    /\ calls = <<"WriteOpusHeader", "GetOpusHeaderBuffers">>
    /\ header.channels = 8
    /\ data_size = 30
    /\ bufs.opusHeadSize = 30

\* the length of the header WriteOpusHeader writes for the header under test
C8_HeaderLen == IF header.channels > 2 THEN 22 + header.channels ELSE 19

\* C8: with a capacity of at least AOPUS_UNIFIED_CSD_MINSIZE = 67,
\* WriteOpusHeaders succeeds exactly when L + 48 <= capacity, L being the
\* length WriteOpusHeader returns, and then returns L + 48 with the
\* codec-delay record at offset L and the seek-preroll record at L + 24.
C8_UnifiedCapacityRule ==
    (calls = <<"WriteOpusHeaders">> /\ Len(before) >= 67) =>
        /\ ret >= 0 <=> C8_HeaderLen + 48 <= Len(before)
        /\ ret >= 0 =>
              /\ ret = C8_HeaderLen + 48
              /\ OutputBytes(C8_HeaderLen, 8) = AOPUS_CSD_CODEC_DELAY_MARKER
              /\ OutputBytes(C8_HeaderLen + 24, 8) = AOPUS_CSD_SEEK_PREROLL_MARKER

\* C9: the byte count a successful WriteOpusHeader returns never exceeds the
\* capacity it was given.
C9_ReturnWithinCapacity ==
    (calls = <<"WriteOpusHeader">> /\ ret >= 0) => ret <= Len(before)

\* the offsets at which the scan of GetOpusHeaderBuffers matched a marker
C10_Matched(marker) ==
    { bufs.scan[k] : k \in { j \in 1..Len(bufs.scan) :
                               OutputBytes(bufs.scan[j], 8) = marker } }

C10_AllMatched ==
    C10_Matched(AOPUS_CSD_CODEC_DELAY_MARKER)
        \cup C10_Matched(AOPUS_CSD_SEEK_PREROLL_MARKER)

\* C10: in GetOpusHeaderBuffers the scan index strictly increases until the
\* loop exits, every marker comparison reads only indices below data_size,
\* the head size is at most data_size and is the smallest offset at which a
\* marker was matched (data_size if none was), and a trailer view that is
\* present is the 8 bytes [m+16, m+24) of a matched marker offset m with
\* m + 24 <= data_size.
C10_SplitWithinInput ==
    LastCall("GetOpusHeaderBuffers") =>
        /\ \A k \in 1..(Len(bufs.scan) - 1) : bufs.scan[k] < bufs.scan[k + 1]
        /\ bufs.scan # <<>> => bufs.scan[Len(bufs.scan)] < bufs.last
        /\ data_size >= 67 => bufs.exited /\ bufs.last >= data_size - 24
        /\ \A i \in bufs.reads : i >= 0 /\ i < data_size
        /\ bufs.opusHeadBuf = 0
        /\ bufs.opusHeadSize <= data_size
        /\ IF C10_AllMatched = {}
           THEN bufs.opusHeadSize = data_size
           ELSE /\ bufs.opusHeadSize \in C10_AllMatched
                /\ \A m \in C10_AllMatched : bufs.opusHeadSize <= m
        /\ IF bufs.codecDelayBuf = NULL
           THEN bufs.codecDelaySize = 0
           ELSE /\ bufs.codecDelaySize = 8
                /\ \E m \in C10_Matched(AOPUS_CSD_CODEC_DELAY_MARKER) :
                      bufs.codecDelayBuf = m + 16 /\ m + 24 <= data_size
        /\ IF bufs.seekPreRollBuf = NULL
           THEN bufs.seekPreRollSize = 0
           ELSE /\ bufs.seekPreRollSize = 8
                /\ \E m \in C10_Matched(AOPUS_CSD_SEEK_PREROLL_MARKER) :
                      bufs.seekPreRollBuf = m + 16 /\ m + 24 <= data_size

C10_Witness ==
    /\ calls = <<"GetOpusHeaderBuffers">>
    /\ bufs.codecDelayBuf # NULL
    /\ bufs.seekPreRollBuf # NULL
    /\ bufs.seekPreRollBuf < bufs.codecDelayBuf
    /\ bufs.opusHeadSize = 19

=============================================================================
